---- MODULE Spec2Model ----
(***************************************************************************)
(* A model of grse (github-repo-settings-editor), src/src/index.ts:        *)
(* one run of the main async function: login, the paginated listing of    *)
(* the owner's repositories, the selection and preference prompts, the    *)
(* conformance evaluation, and the concurrent batch of PATCH requests.    *)
(*                                                                         *)
(* JavaScript values are modelled as strings: the booleans "true" and     *)
(* "false", the value undefined as "undefined", and the string            *)
(* 'undefined' (the value of the "Don't enforce" choice) as "'undefined'".*)
(***************************************************************************)
EXTENDS Integers, Sequences, FiniteSets, TLC

\* ---- bounds of the model ------------------------------------------------

\* The most repositories the account owns.
MaxRepos == 2

\* How many of the 9 settings (the first ones of `properties`) the run uses.
NumSettings == 2

\* The page size of the listing query ("first: 100"), scaled down so that
\* the bounded repository lists span several pages.
PageSize == 1

\* ---- values -------------------------------------------------------------

\* let endCursor = null
NullCursor == 0

Undefined == "undefined"

\* { title: 'Don\'t enforce', value: 'undefined' }
DontEnforce == "'undefined'"

Booleans == {"true", "false"}

\* const properties: (keyof Preferences)[] = [...]
properties ==
  << "autoMergeAllowed", "deleteBranchOnMerge", "forkingAllowed",
     "hasIssuesEnabled", "hasProjectsEnabled", "hasWikiEnabled",
     "mergeCommitAllowed", "rebaseMergeAllowed", "squashMergeAllowed" >>

\* The settings the bounded model prompts for, compares and writes.
Settings == {properties[i] : i \in 1..NumSettings}

\* Names of the owner's repositories (unique within the owner's namespace).
RepoNames == << "a", "b", "c", "d", "e", "f" >>

\* A full repository snapshot, as the listing query's nodes carry it.
Repository(i, s) == [id |-> i, name |-> RepoNames[i], settings |-> s]

\* All the repository lists the account may own.
RepositoryLists ==
  UNION {[1..n -> [Settings -> Booleans]] : n \in 0..MaxRepos}

VARIABLES
  pc,            \* where the main async function is suspended
  login,         \* what getLogin returned ("" before it has)
  initial,       \* the owner's repositories when the run starts
  remote,        \* the owner's repositories on the server
  repositories,  \* getRepositories: the accumulated nodes
  hasNextPage,   \* getRepositories: loop variable
  endCursor,     \* getRepositories: loop variable
  pageReq,       \* the listing request in flight: <<after>>, or <<>>
  srv,           \* the server's view of the listing: its last response
  selected,      \* what getRepositories returned
  preferences,   \* what getPreferences returned
  nonConforming, \* what getNonConformingRepositories returned
  shouldUpdate,  \* the confirm prompt: "unasked", "asked", "yes", "no"
  requests,      \* the PATCH requests issued, in order
  outcome,       \* per request: "pending", "ok", "failed", "abandoned"
  batch,         \* Promise.all's promise: [state, reason]
  report,        \* the closing console line: "none", "compliant", "updated"
  failedPhase    \* the phase whose failure rejected main, or "none"

vars == << pc, login, initial, remote, repositories, hasNextPage, endCursor, pageReq,
           srv, selected, preferences, nonConforming, shouldUpdate, requests,
           outcome, batch, report, failedPhase >>

\* ---- the remote API -----------------------------------------------------

\* The login of the authenticated viewer.
ViewerLogin == "viewer"

Min(a, b) == IF a < b THEN a ELSE b

\* user(login).repositories(affiliations: [OWNER], first, after): the page
\* of at most `first` nodes that follows the cursor, with its pageInfo.
\* A cursor is the position of the last node already returned.
ServerPage(repos, after, first) ==
  LET nodes == SubSeq(repos, after + 1, Min(after + first, Len(repos)))
  IN  [ nodes       |-> nodes,
        hasNextPage |-> after + first < Len(repos),
        endCursor   |-> IF nodes = << >> THEN NullCursor
                                         ELSE after + Len(nodes) ]

\* The REST name of each setting, as updateRepository pairs them.
FieldMap ==
  { << "has_issues",             "hasIssuesEnabled"    >>,
    << "has_projects",           "hasProjectsEnabled"  >>,
    << "has_wiki",               "hasWikiEnabled"      >>,
    << "allow_forking",          "forkingAllowed"      >>,
    << "allow_squash_merge",     "squashMergeAllowed"  >>,
    << "allow_merge_commit",     "mergeCommitAllowed"  >>,
    << "allow_rebase_merge",     "rebaseMergeAllowed"  >>,
    << "allow_auto_merge",       "autoMergeAllowed"    >>,
    << "delete_branch_on_merge", "deleteBranchOnMerge" >> }

\* The REST API's own name for a repository setting.
RestName(key) ==
  CASE key = "hasIssuesEnabled"    -> "has_issues"
    [] key = "hasProjectsEnabled"  -> "has_projects"
    [] key = "hasWikiEnabled"      -> "has_wiki"
    [] key = "forkingAllowed"      -> "allow_forking"
    [] key = "squashMergeAllowed"  -> "allow_squash_merge"
    [] key = "mergeCommitAllowed"  -> "allow_merge_commit"
    [] key = "rebaseMergeAllowed"  -> "allow_rebase_merge"
    [] key = "autoMergeAllowed"    -> "allow_auto_merge"
    [] key = "deleteBranchOnMerge" -> "delete_branch_on_merge"

\* PATCH /repos/{owner}/{repo} succeeding: the settings the body names take
\* the body's values, the others keep theirs.
ApplyPatch(repo, body) ==
  [repo EXCEPT !.settings =
     [k \in DOMAIN repo.settings |->
        IF RestName(k) \in DOMAIN body THEN body[RestName(k)]
                                       ELSE repo.settings[k]]]

\* The server's repositories after a successful PATCH of owner/name.
Patched(repos, owner, name, body) ==
  [i \in DOMAIN repos |->
     IF owner = ViewerLogin /\ repos[i].name = name
       THEN ApplyPatch(repos[i], body)
       ELSE repos[i]]

\* ---- getRepositories: the loop's steps ----------------------------------

\* A bug: the page's nodes replace the accumulated ones.
PushReplacing(repos, nodes) == nodes

\* repositories.push(...page.nodes)
Push(repos, nodes) == repos \o nodes

\* while (hasNextPage)
LoopContinues(hasNext) == hasNext

\* after: endCursor
AfterOf(cursor) == cursor

\* A bug: the cursor variable is never advanced.
CursorOfStale(page) == NullCursor

\* endCursor = page.pageInfo.endCursor
CursorOf(page) == page.endCursor

\* ---- getPreferences -----------------------------------------------------

\* What the prompts return: one choice per property.
PromptAnswers == [Settings -> Booleans \cup {DontEnforce}]

\* for (const key in prefs) if (prefs[key] === 'undefined') prefs[key] = undefined
Normalise(prefs) ==
  [key \in DOMAIN prefs |->
     IF prefs[key] = DontEnforce THEN Undefined ELSE prefs[key]]

\* preferences.<key>: undefined for a key the object does not have.
PrefValue(prefs, key) ==
  IF key \in DOMAIN prefs THEN prefs[key] ELSE Undefined

\* ---- getNonConformingRepositories ---------------------------------------

\* A bug: an unenforced preference is compared like an enforced one.
DiffersIgnoringUndefined(repo, key, value) == repo.settings[key] # value

\* value !== undefined && repo[key] !== value
Differs(repo, key, value) ==
  value # Undefined /\ repo.settings[key] # value

\* preferenceEntries.some(...)
IsNonConforming(repo, prefs) ==
  \E key \in DOMAIN prefs : Differs(repo, key, prefs[key])

\* A bug: the record holds the desired value.
ResultValueDesired(repo, key, value) == value

\* The value stored for a differing key: result[key] = repo[key]
ResultValue(repo, key, value) == repo.settings[key]

\* The record the map callback builds for one repository.
ResultOf(repo, prefs) ==
  [ id     |-> repo.id,
    name   |-> repo.name,
    fields |-> [key \in {k \in DOMAIN prefs : Differs(repo, k, prefs[k])} |->
                  ResultValue(repo, key, prefs[key])] ]

RECURSIVE FilterMap(_, _)
\* repositories.filter(...).map(...), in input order.
FilterMap(repos, prefs) ==
  IF repos = << >> THEN << >>
  ELSE IF IsNonConforming(Head(repos), prefs)
         THEN << ResultOf(Head(repos), prefs) >> \o FilterMap(Tail(repos), prefs)
         ELSE FilterMap(Tail(repos), prefs)

getNonConformingRepositories(repos, prefs) == FilterMap(repos, prefs)

\* ---- updateRepository ---------------------------------------------------

\* A bug: an absent preference is sent as false.
ParamsCoerced(prefs) ==
  [r \in {m[1] : m \in FieldMap} |->
     LET v == PrefValue(prefs, (CHOOSE m \in FieldMap : m[1] = r)[2])
     IN  IF v = Undefined THEN "false" ELSE v]

\* A bug: two parameters take each other's preference.
ParamsSwapped(prefs) ==
  [r \in {m[1] : m \in FieldMap} |->
     CASE r = "allow_auto_merge"       -> PrefValue(prefs, "deleteBranchOnMerge")
       [] r = "delete_branch_on_merge" -> PrefValue(prefs, "autoMergeAllowed")
       [] OTHER -> PrefValue(prefs, (CHOOSE m \in FieldMap : m[1] = r)[2])]

\* The parameters handed to octokit.request: every REST name, each with the
\* value of its preference.
Params(prefs) ==
  [r \in {m[1] : m \in FieldMap} |->
     PrefValue(prefs, (CHOOSE m \in FieldMap : m[1] = r)[2])]

\* The JSON body of the request: a parameter whose value is undefined is
\* dropped when the body is serialised.
Body(params) ==
  [r \in {x \in DOMAIN params : params[x] # Undefined} |-> params[r]]

\* The request updateRepository issues for one repository.
updateRepository(owner, repository, prefs) ==
  [owner |-> owner, repo |-> repository.name, body |-> Body(Params(prefs))]

\* repositories.map(repo => updateRepository(...)): one request each.
updateRepositories(owner, repos, prefs) ==
  [i \in 1..Len(repos) |-> updateRepository(owner, repos[i], prefs)]

\* Promise.all: rejected by the first rejection with that rejection's
\* reason, fulfilled once every promise is.
PromiseAll(b, outcomes, i, result) ==
  IF b.state # "pending" THEN b
  ELSE IF result = "failed" THEN [state |-> "rejected", reason |-> i]
  ELSE IF \A j \in DOMAIN outcomes : j = i \/ outcomes[j] = "ok"
         THEN [state |-> "fulfilled", reason |-> 0]
         ELSE b

\* ---- the run ------------------------------------------------------------

NoBatch == [state |-> "none", reason |-> 0]

Init ==
  /\ \E ss \in RepositoryLists :
       initial = [i \in DOMAIN ss |-> Repository(i, ss[i])]
  /\ remote = initial
  /\ pc = "getLogin"
  /\ login = ""
  /\ repositories = << >>
  /\ hasNextPage = TRUE
  /\ endCursor = NullCursor
  /\ pageReq = << >>
  /\ srv = [responses |-> 0, endCursor |-> NullCursor, hasNextPage |-> TRUE]
  /\ selected = << >>
  /\ preferences = [key \in Settings |-> Undefined]
  /\ nonConforming = << >>
  /\ shouldUpdate = "unasked"
  /\ requests = << >>
  /\ outcome = << >>
  /\ batch = NoBatch
  /\ report = "none"
  /\ failedPhase = "none"

\* getLogin resolves; getRepositories starts and issues the first page
\* request with the initial (null) cursor.
LoginOk ==
  /\ pc = "getLogin"
  /\ login' = ViewerLogin
  /\ repositories' = << >>
  /\ hasNextPage' = TRUE
  /\ endCursor' = NullCursor
  /\ pageReq' = << AfterOf(NullCursor) >>
  /\ pc' = "listing"
  /\ UNCHANGED << initial, remote, srv, selected, preferences, nonConforming,
                  shouldUpdate, requests, outcome, batch, report, failedPhase >>

\* The viewer query fails: getLogin throws, and main's promise rejects.
LoginFail ==
  /\ pc = "getLogin"
  /\ pc' = "rejected"
  /\ failedPhase' = "login"
  /\ UNCHANGED << login, initial, remote, repositories, hasNextPage, endCursor,
                  pageReq, srv, selected, preferences, nonConforming,
                  shouldUpdate, requests, outcome, batch, report >>

\* A page request resolves: the loop body runs, and either the next request
\* is issued or the loop ends at the "enforce on all?" prompt.
PageResponse ==
  /\ pc = "listing"
  /\ pageReq # << >>
  /\ LET page == ServerPage(remote, pageReq[1], PageSize)
     IN  /\ repositories' = Push(repositories, page.nodes)
         /\ hasNextPage' = page.hasNextPage
         /\ endCursor' = CursorOf(page)
         /\ srv' = [ responses   |-> srv.responses + 1,
                     endCursor   |-> page.endCursor,
                     hasNextPage |-> page.hasNextPage ]
  /\ IF LoopContinues(hasNextPage')
       THEN /\ pageReq' = << AfterOf(endCursor') >>
            /\ pc' = "listing"
       ELSE /\ pageReq' = << >>
            /\ pc' = "selectRepos"
  /\ UNCHANGED << login, initial, remote, selected, preferences, nonConforming,
                  shouldUpdate, requests, outcome, batch, report, failedPhase >>

\* A bug: the failure is swallowed and the nodes fetched so far are used.
PageFailSwallowed ==
  /\ pc = "listing"
  /\ pageReq # << >>
  /\ pageReq' = << >>
  /\ pc' = "selectRepos"
  /\ failedPhase' = "listing"
  /\ UNCHANGED << login, initial, remote, repositories, hasNextPage, endCursor,
                  srv, selected, preferences, nonConforming, shouldUpdate,
                  requests, outcome, batch, report >>

\* A page request fails: the await throws out of the loop, getRepositories
\* and main reject.
PageFail ==
  /\ pc = "listing"
  /\ pageReq # << >>
  /\ pageReq' = << >>
  /\ pc' = "rejected"
  /\ failedPhase' = "listing"
  /\ UNCHANGED << login, initial, remote, repositories, hasNextPage, endCursor,
                  srv, selected, preferences, nonConforming, shouldUpdate,
                  requests, outcome, batch, report >>

\* "Would you like to enforce settings on all repositories?" Yes.
SelectAll ==
  /\ pc = "selectRepos"
  /\ selected' = repositories
  /\ pc' = "getPreferences"
  /\ UNCHANGED << login, initial, remote, repositories, hasNextPage, endCursor,
                  pageReq, srv, preferences, nonConforming, shouldUpdate,
                  requests, outcome, batch, report, failedPhase >>

\* ... No: the multiselect prompt follows.
SelectSome ==
  /\ pc = "selectRepos"
  /\ pc' = "getSelections"
  /\ UNCHANGED << login, initial, remote, repositories, hasNextPage, endCursor,
                  pageReq, srv, selected, preferences, nonConforming,
                  shouldUpdate, requests, outcome, batch, report, failedPhase >>

RECURSIVE Chosen(_, _, _)
\* The choices of `repos` the user ticked, in the order of the choices.
Chosen(repos, ticked, i) ==
  IF i > Len(repos) THEN << >>
  ELSE (IF i \in ticked THEN << repos[i] >> ELSE << >>)
         \o Chosen(repos, ticked, i + 1)

\* The multiselect prompt is answered with any subset of the choices.
GetSelections ==
  /\ pc = "getSelections"
  /\ \E ticked \in SUBSET (1..Len(repositories)) :
       selected' = Chosen(repositories, ticked, 1)
  /\ pc' = "getPreferences"
  /\ UNCHANGED << login, initial, remote, repositories, hasNextPage, endCursor,
                  pageReq, srv, preferences, nonConforming, shouldUpdate,
                  requests, outcome, batch, report, failedPhase >>

\* The preference prompts are answered; main evaluates the repositories and
\* either reports full compliance and returns, or lists the differing
\* repositories and asks whether to update them.
AnswerPreferences ==
  /\ pc = "getPreferences"
  /\ \E answers \in PromptAnswers :
       preferences' = Normalise(answers)
  /\ nonConforming' = getNonConformingRepositories(selected, preferences')
  /\ IF Len(nonConforming') = 0
       THEN /\ report' = "compliant"
            /\ pc' = "done"
            /\ UNCHANGED shouldUpdate
       ELSE /\ shouldUpdate' = "asked"
            /\ pc' = "getShouldUpdate"
            /\ UNCHANGED report
  /\ UNCHANGED << login, initial, remote, repositories, hasNextPage, endCursor,
                  pageReq, srv, selected, requests, outcome, batch, failedPhase >>

\* The confirm prompt is answered yes: updateRepositories starts every
\* updateRepository, each of which issues its PATCH request before any of
\* them can settle.
ConfirmYes ==
  /\ pc = "getShouldUpdate"
  /\ shouldUpdate' = "yes"
  /\ requests' = updateRepositories(login, nonConforming, preferences)
  /\ outcome' = [i \in DOMAIN requests' |-> "pending"]
  /\ batch' = [state |-> "pending", reason |-> 0]
  /\ pc' = "updating"
  /\ UNCHANGED << login, initial, remote, repositories, hasNextPage, endCursor,
                  pageReq, srv, selected, preferences, nonConforming, report,
                  failedPhase >>

\* A bug: the answer is not tested, and the updates are issued anyway.
ConfirmNoIgnored ==
  /\ pc = "getShouldUpdate"
  /\ shouldUpdate' = "no"
  /\ requests' = updateRepositories(login, nonConforming, preferences)
  /\ outcome' = [i \in DOMAIN requests' |-> "pending"]
  /\ batch' = [state |-> "pending", reason |-> 0]
  /\ pc' = "updating"
  /\ UNCHANGED << login, initial, remote, repositories, hasNextPage, endCursor,
                  pageReq, srv, selected, preferences, nonConforming, report,
                  failedPhase >>

\* The confirm prompt is answered no: main returns.
ConfirmNo ==
  /\ pc = "getShouldUpdate"
  /\ shouldUpdate' = "no"
  /\ pc' = "done"
  /\ UNCHANGED << login, initial, remote, repositories, hasNextPage, endCursor,
                  pageReq, srv, selected, preferences, nonConforming, requests,
                  outcome, batch, report, failedPhase >>

\* Request i succeeds: the server applies it, updateRepository logs and
\* resolves; when that fulfils Promise.all, main reports and returns.
WriteOk(i) ==
  /\ pc \in {"updating", "rejected"}
  /\ i \in DOMAIN outcome
  /\ outcome[i] = "pending"
  /\ remote' = Patched(remote, requests[i].owner, requests[i].repo,
                       requests[i].body)
  /\ outcome' = [outcome EXCEPT ![i] = "ok"]
  /\ batch' = PromiseAll(batch, outcome, i, "ok")
  /\ IF batch.state = "pending" /\ batch'.state = "fulfilled"
       THEN report' = "updated" /\ pc' = "done"
       ELSE UNCHANGED << report, pc >>
  /\ UNCHANGED << login, initial, repositories, hasNextPage, endCursor,
                  pageReq, srv, selected, preferences, nonConforming,
                  shouldUpdate, requests, failedPhase >>

\* Request i fails: updateRepository rejects; the first rejection rejects
\* Promise.all, the await in main throws and main's promise rejects.
WriteFail(i) ==
  /\ pc \in {"updating", "rejected"}
  /\ i \in DOMAIN outcome
  /\ outcome[i] = "pending"
  /\ outcome' = [outcome EXCEPT ![i] = "failed"]
  /\ batch' = PromiseAll(batch, outcome, i, "failed")
  /\ IF batch.state = "pending" /\ batch'.state = "rejected"
       THEN failedPhase' = "update" /\ pc' = "rejected"
       ELSE UNCHANGED << failedPhase, pc >>
  /\ UNCHANGED << login, initial, remote, repositories, hasNextPage, endCursor,
                  pageReq, srv, selected, preferences, nonConforming,
                  shouldUpdate, requests, report >>

\* Nothing handles main's rejection: a runtime that turns an unhandled
\* rejection into an uncaught exception ends the process, and the requests
\* still pending are never waited for.
UnhandledRejection ==
  /\ pc = "rejected"
  /\ pc' = "exited"
  /\ outcome' = [i \in DOMAIN outcome |->
                   IF outcome[i] = "pending" THEN "abandoned" ELSE outcome[i]]
  /\ UNCHANGED << login, initial, remote, repositories, hasNextPage, endCursor,
                  pageReq, srv, selected, preferences, nonConforming,
                  shouldUpdate, requests, batch, report, failedPhase >>

\* Ctrl+c at a prompt: onCancel calls process.exit(1).
Cancel ==
  /\ pc \in {"selectRepos", "getSelections", "getPreferences", "getShouldUpdate"}
  /\ pc' = "exited"
  /\ UNCHANGED << login, initial, remote, repositories, hasNextPage, endCursor,
                  pageReq, srv, selected, preferences, nonConforming,
                  shouldUpdate, requests, outcome, batch, report, failedPhase >>

Next ==
  \/ LoginOk
  \/ LoginFail
  \/ PageResponse
  \/ PageFail
  \/ SelectAll
  \/ SelectSome
  \/ GetSelections
  \/ AnswerPreferences
  \/ ConfirmYes
  \/ ConfirmNo
  \/ \E i \in 1..MaxRepos : WriteOk(i)
  \/ \E i \in 1..MaxRepos : WriteFail(i)
  \/ UnhandledRejection
  \/ Cancel

Spec == Init /\ [][Next]_vars

\* Each request eventually resolves to success or a definitive failure.
FairSpec == Spec /\ WF_vars(PageResponse \/ PageFail)

\* ---- properties ---------------------------------------------------------

\* The repository of `repos` with the given id.
WithId(repos, id) == {i \in DOMAIN repos : repos[i].id = id}

\* The listing has ended without a failure.
Listed ==
  /\ pc \notin {"getLogin", "listing"}
  /\ failedPhase \notin {"login", "listing"}

\* C1: a repository handed to the evaluation has a record in its output if
\* and only if some preference is defined and differs from the repository's
\* value; every record is of a repository that was handed in; and with no
\* preference defined the output is empty.
C1_FlaggedIffDiffers ==
  /\ \A i \in DOMAIN selected :
       (\E j \in DOMAIN nonConforming : nonConforming[j].id = selected[i].id)
         <=> (\E k \in Settings :
                /\ preferences[k] \in Booleans
                /\ selected[i].settings[k] # preferences[k])
  /\ \A j \in DOMAIN nonConforming :
       WithId(selected, nonConforming[j].id) # {}
  /\ (\A k \in Settings : preferences[k] = Undefined) => nonConforming = << >>

\* Two repositories were evaluated under a partly defined preference set,
\* and exactly one of them was flagged.
C1_Witness ==
  /\ Len(selected) = 2
  /\ Len(nonConforming) = 1
  /\ \E k \in Settings : preferences[k] = Undefined
  /\ \E k \in Settings : preferences[k] \in Booleans

\* C2: every record of the output carries the id and the name of its
\* repository, and a field for exactly the settings whose preference is
\* defined and differs, holding the repository's own value (so not the
\* desired one); no record has zero fields.
C2_ExactlyDifferingFields ==
  \A j \in DOMAIN nonConforming :
    \A i \in WithId(selected, nonConforming[j].id) :
      LET repo == selected[i]
          rec  == nonConforming[j]
      IN  /\ rec.name = repo.name
          /\ DOMAIN rec = {"id", "name", "fields"}
          /\ DOMAIN rec.fields =
               {k \in Settings : /\ preferences[k] \in Booleans
                                 /\ repo.settings[k] # preferences[k]}
          /\ \A k \in DOMAIN rec.fields :
               /\ rec.fields[k] = repo.settings[k]
               /\ rec.fields[k] # preferences[k]
          /\ DOMAIN rec.fields # {}

\* Every preference is defined, and a record carries one field only: the
\* repository's other setting matches its preference and was left out.
C2_Witness ==
  /\ \A k \in Settings : preferences[k] \in Booleans
  /\ \E j \in DOMAIN nonConforming :
       Cardinality(DOMAIN nonConforming[j].fields) = 1

\* What main, which awaits updateRepositories, learns about request i from
\* the settled promise: fulfilled, every write succeeded; rejected, the one
\* rejection reason it carries.
Observed(i) ==
  CASE batch.state = "fulfilled" -> "ok"
    [] batch.state = "rejected"  -> IF batch.reason = i THEN "failed"
                                                         ELSE "unknown"
    [] OTHER -> "unknown"

\* C3: once the writes of a batch have resolved, the result of
\* updateRepositories tells the caller each repository's outcome.
C3_PerRepositoryOutcome ==
  (/\ outcome # << >>
   /\ \A i \in DOMAIN outcome : outcome[i] \in {"ok", "failed"})
    => \A i \in DOMAIN outcome : Observed(i) = outcome[i]

\* C4: every repository of the batch has its request issued, and no request
\* is kept from resolving by the failure of a sibling.
C4_SiblingsResolve ==
  /\ shouldUpdate = "yes" => Len(requests) = Len(nonConforming)
  /\ \A i \in DOMAIN outcome : outcome[i] # "abandoned"

\* C5: while listing, the accumulated records are the first ones of the
\* server's list; once the listing has ended, they are exactly the server's
\* records, in the server's order.
C5_PaginationComplete ==
  /\ Len(repositories) <= Len(initial)
  /\ repositories = SubSeq(initial, 1, Len(repositories))
  /\ Listed => repositories = initial

\* A listing of two pages has ended.
C5_Witness ==
  /\ Listed
  /\ srv.responses >= 2
  /\ Len(repositories) = 2

\* C6: a run whose login or listing failed has ended without evaluating
\* anything and without a write request; whatever is evaluated is drawn
\* from the complete list.
C6_FailureAborts ==
  /\ failedPhase \in {"login", "listing"} =>
       /\ pc \in {"rejected", "exited"}
       /\ selected = << >>
       /\ nonConforming = << >>
       /\ shouldUpdate = "unasked"
       /\ report = "none"
       /\ requests = << >>
  /\ (pc = "getPreferences" \/ shouldUpdate # "unasked" \/ report # "none"
        \/ requests # << >>) =>
       /\ login = ViewerLogin
       /\ Len(repositories) = Len(initial)
       /\ \A i \in DOMAIN selected : WithId(initial, selected[i].id) # {}

\* A page request failed after an earlier page had been accumulated.
C6_Witness ==
  /\ failedPhase = "listing"
  /\ Len(repositories) >= 1
  /\ Len(repositories) < Len(initial)

\* C7: the body of every write request carries, for each setting, the
\* preference's value when the preference is defined and nothing when it is
\* absent, and carries nothing else; a successful write leaves the remote
\* value of every unenforced setting as it was.
C7_SparsePayload ==
  /\ \A i \in DOMAIN requests :
       /\ \A k \in Settings :
            IF preferences[k] \in Booleans
              THEN /\ RestName(k) \in DOMAIN requests[i].body
                   /\ requests[i].body[RestName(k)] = preferences[k]
              ELSE RestName(k) \notin DOMAIN requests[i].body
       /\ DOMAIN requests[i].body \subseteq {RestName(k) : k \in Settings}
  /\ \A r \in DOMAIN remote :
       \A k \in Settings :
         preferences[k] = Undefined =>
           remote[r].settings[k] = initial[r].settings[k]

\* A write whose body carries one setting only has succeeded.
C7_Witness ==
  \E i \in DOMAIN requests :
    /\ outcome[i] = "ok"
    /\ Cardinality(DOMAIN requests[i].body) = 1

\* C8: a repository whose write has succeeded is conforming when evaluated
\* again under the same preferences, and the same write applied once more
\* leaves it as it is.
C8_UpdateThenConform ==
  \A i \in DOMAIN requests :
    outcome[i] = "ok" =>
      /\ \A r \in DOMAIN remote :
           remote[r].name = requests[i].repo =>
             /\ getNonConformingRepositories(<< remote[r] >>, preferences)
                  = << >>
             /\ \A k \in Settings :
                  preferences[k] \in Booleans =>
                    remote[r].settings[k] = preferences[k]
      /\ Patched(remote, requests[i].owner, requests[i].repo,
                 requests[i].body) = remote

\* A write has succeeded and changed the repository.
C8_Witness ==
  \E i \in DOMAIN requests :
    /\ outcome[i] = "ok"
    /\ \E r \in DOMAIN remote :
         /\ remote[r].name = requests[i].repo
         /\ remote[r] # initial[r]

\* C9: requests are issued only once the user has confirmed, one for each
\* record of the evaluation's output and for nothing else; a run that finds
\* nothing non-conforming reports compliance, never asks and never writes.
C9_WritesOnlyConfirmed ==
  /\ requests # << >> => shouldUpdate = "yes"
  /\ shouldUpdate = "yes" =>
       /\ Len(requests) = Len(nonConforming)
       /\ \A i \in DOMAIN requests :
            /\ requests[i].repo = nonConforming[i].name
            /\ requests[i].owner = login
       /\ \A i, j \in DOMAIN requests :
            requests[i].repo = requests[j].repo => i = j
  /\ shouldUpdate # "unasked" => nonConforming # << >>
  /\ (pc = "done" /\ nonConforming = << >>) =>
       /\ report = "compliant"
       /\ shouldUpdate = "unasked"
       /\ requests = << >>
  /\ \A r \in DOMAIN remote :
       remote[r] # initial[r] =>
         \E i \in DOMAIN requests : requests[i].repo = remote[r].name

\* The user confirmed, and one of the two evaluated repositories is written.
C9_Witness ==
  /\ shouldUpdate = "yes"
  /\ Len(selected) = 2
  /\ Len(requests) = 1

\* What C10 demands of every state: a request in flight carries the cursor
\* of the response before it (the null cursor when there was none), none is
\* in flight once a response reported no further page, and the loop has then
\* ended.
CursorDiscipline ==
  /\ Len(pageReq) <= 1
  /\ pageReq # << >> =>
       /\ pc = "listing"
       /\ pageReq[1] = srv.endCursor
       /\ srv.responses = 0 => pageReq[1] = NullCursor
       /\ srv.hasNextPage
  /\ ~ srv.hasNextPage => pc # "listing"
  /\ pc = "listing" => pageReq # << >>

\* C10: the cursor discipline holds throughout, and a listing under way
\* always ends.
C10_CursorOrderAndTermination ==
  /\ [] CursorDiscipline
  /\ (pc = "listing") ~> (pc # "listing")

\* The request for the second page is in flight.
C10_Witness ==
  /\ pageReq # << >>
  /\ srv.responses = 1
  /\ pageReq[1] # NullCursor

====
